---- MODULE Spec2Model ----
(***************************************************************************)
(* Bond liquidity heatmap: the regeneration pipeline                       *)
(* (generate_data.py -> ingest.py -> compute_metrics.py), the SQLite       *)
(* stores raw_trade_events and trade_metrics, and the view of main.py      *)
(* (load_metrics, render).                                                 *)
(*                                                                         *)
(* Numbers.  The program computes in floating point.  The model computes   *)
(* with exact fractions [n, d] (d > 0, lowest terms); NaN is the fraction  *)
(* with d = 0.  Time is counted in minutes, dates in days, prices in       *)
(* units of 0.0001 (so that spread_bps = |price difference| * 10000 is     *)
(* the difference of the modelled prices).                                 *)
(***************************************************************************)
EXTENDS Integers, Sequences, FiniteSets, TLC

VARIABLES
    csv,      \* data/ftrac_*.csv: the latest file ingest.py would pick
    raw,      \* table raw_trade_events (rows in trade_id order)
    tm,       \* table trade_metrics: [exists, rows]
    pc,       \* position of the "Regenerate Data" handler of main.py
    rc,       \* return codes of the three subprocesses of the current run
    cpc,      \* position inside the running compute_metrics.py process
    df,       \* metrics_df held in memory by compute_metrics.py
    snap,     \* the two stores as they were when the current run started
    metrics,  \* what load_metrics last returned to the view
    grid      \* the grid render() last built

vars == <<csv, raw, tm, pc, rc, cpc, df, snap, metrics, grid>>

---------------------------------------------------------------------------
(* Exact fractions                                                         *)

RECURSIVE GCD(_, _)
GCD(a, b) == IF b = 0 THEN a ELSE GCD(b, a % b)

Abs(x) == IF x < 0 THEN -x ELSE x

NaN == [n |-> 0, d |-> 0]

IsNaN(x) == x.d = 0

Frac(n, d) ==
    IF d = 0 THEN NaN
    ELSE LET g == GCD(Abs(n), Abs(d))
             s == IF d < 0 THEN -1 ELSE 1
         IN  [n |-> s * (n \div g), d |-> s * (d \div g)]

Whole(k) == [n |-> k, d |-> 1]

\* sums over the least common denominator, so that intermediate values stay small
RAdd(a, b) ==
    IF IsNaN(a) \/ IsNaN(b) THEN NaN
    ELSE LET g == GCD(a.d, b.d)
         IN  Frac(a.n * (b.d \div g) + b.n * (a.d \div g), a.d * (b.d \div g))

RNeg(a) == [n |-> -a.n, d |-> a.d]

RSub(a, b) == RAdd(a, RNeg(b))

\* cross-cancelled product, so that intermediate values stay small
RMul(a, b) ==
    IF IsNaN(a) \/ IsNaN(b) THEN NaN
    ELSE LET x == Frac(a.n, b.d)
             y == Frac(b.n, a.d)
         IN  Frac(x.n * y.n, x.d * y.d)

\* the only division by zero the program's data can produce is 0/0 = NaN
RDiv(a, b) == IF IsNaN(a) \/ IsNaN(b) \/ b.n = 0 THEN NaN
              ELSE RMul(a, [n |-> b.d, d |-> b.n])

RAbs(a) == [n |-> Abs(a.n), d |-> a.d]

\* comparisons with NaN are false, as in IEEE arithmetic
RLt(a, b) == ~IsNaN(a) /\ ~IsNaN(b) /\ a.n * b.d < b.n * a.d
RLe(a, b) == ~IsNaN(a) /\ ~IsNaN(b) /\ a.n * b.d <= b.n * a.d
RGt(a, b) == RLt(b, a)
RGe(a, b) == RLe(b, a)

Half == Frac(1, 2)

Range(s) == {s[i] : i \in DOMAIN s}

RECURSIVE SeqSum(_)
SeqSum(s) == IF s = <<>> THEN Whole(0) ELSE RAdd(s[1], SeqSum(Tail(s)))

\* the non-NaN entries of a sequence of fractions, in order
NotNa(s) == SelectSeq(s, LAMBDA x : ~IsNaN(x))

\* Series.max(): the largest non-NaN entry, NaN when there is none
SeriesMax(s) ==
    LET v == Range(NotNa(s))
    IN  IF v = {} THEN NaN
        ELSE CHOOSE m \in v : \A x \in v : RLe(x, m)

Max2(a, b) == IF a >= b THEN a ELSE b

---------------------------------------------------------------------------
(* compute_metrics.py: compute_depth_score                                 *)

DepthWindow == 10
DepthMinPeriods == 5
VwapMinPeriods == 1
VolumeWindow == 15
BpsPerUnit == 10000
ScoreScale == 100
MinTrades == 5

min_spread == Half
min_time == Half

\* group.sort_values('trade_ts'): insertion of each row behind the rows that
\* are not later than it (rows with equal timestamps keep their order)
RECURSIVE SortByTs(_)
SortByTs(s) ==
    IF s = <<>> THEN <<>>
    ELSE LET n    == Len(s)
             rest == SortByTs(SubSeq(s, 1, n - 1))
             x    == s[n]
             k    == Cardinality({i \in DOMAIN rest : rest[i].trade_ts <= x.trade_ts})
         IN  SubSeq(rest, 1, k) \o <<x>> \o SubSeq(rest, k + 1, Len(rest))

\* the differences with the first row filled with 0
DiffZeroFilled(s) == [i \in DOMAIN s |-> IF i = 1 THEN Whole(0) ELSE RSub(s[i], s[i - 1])]

\* Series.diff(): undefined (NaN) in the first row
Diff(s) == [i \in DOMAIN s |-> IF i = 1 THEN NaN ELSE RSub(s[i], s[i - 1])]

\* the trailing window of w rows that ends in row i
Window(s, i, w) == SubSeq(s, Max2(1, i - w + 1), i)

\* Series.rolling(w, min_periods=mp).sum(): NaN entries of the window are
\* skipped, and the result is NaN unless at least mp entries are left
RollingSum(s, w, mp) ==
    [i \in DOMAIN s |->
        LET v == NotNa(Window(s, i, w))
        IN  IF Len(v) >= mp THEN SeqSum(v) ELSE NaN]

RollingMean(s, w, mp) ==
    [i \in DOMAIN s |->
        LET v == NotNa(Window(s, i, w))
        IN  IF Len(v) >= mp THEN RDiv(SeqSum(v), Whole(Len(v))) ELSE NaN]

\* the rescaling without the factor 100
NormalizeToOne(depth) ==
    LET mx == SeriesMax(depth)
    IN  IF RGt(mx, Whole(0))
        THEN [i \in DOMAIN depth |-> RDiv(depth[i], mx)]
        ELSE depth

\* lines 58-59: the series is rescaled only if its maximum is positive
Normalize(depth) ==
    LET mx == SeriesMax(depth)
    IN  IF RGt(mx, Whole(0))
        THEN [i \in DOMAIN depth |-> RMul(RDiv(depth[i], mx), Whole(ScoreScale))]
        ELSE depth

compute_depth_score(group) ==
    LET g      == SortByTs(group)
        idx    == DOMAIN g
        ts     == [i \in idx |-> Whole(g[i].trade_ts)]
        price  == [i \in idx |-> g[i].price]
        qty    == [i \in idx |-> Whole(g[i].qty_cr)]
        pq     == [i \in idx |-> RMul(price[i], qty[i])]
        time_since_last == Diff(ts)
        pdiff      == Diff(price)
        spread_bps == [i \in idx |-> RMul(RAbs(pdiff[i]), Whole(BpsPerUnit))]
        rolling_volume == RollingSum(qty, DepthWindow, DepthMinPeriods)
        rolling_spread == RollingMean(spread_bps, DepthWindow, DepthMinPeriods)
        rolling_time   == RollingMean(time_since_last, DepthWindow, DepthMinPeriods)
        raw_depth == [i \in idx |->
                        RDiv(RDiv(rolling_volume[i], RAdd(rolling_time[i], min_time)),
                             RAdd(rolling_spread[i], min_spread))]
        depth_score == Normalize(raw_depth)
        pqsum == RollingSum(pq, DepthWindow, VwapMinPeriods)
        qsum  == RollingSum(qty, DepthWindow, VwapMinPeriods)
        vol15 == RollingSum(qty, VolumeWindow, VwapMinPeriods)
    IN  [i \in idx |->
            [isin            |-> g[1].isin,
             trade_ts        |-> g[i].trade_ts,
             depth_score     |-> depth_score[i],
             spread          |-> spread_bps[i],
             time_since_last |-> time_since_last[i],
             vwap            |-> RDiv(pqsum[i], qsum[i]),
             volume_15min    |-> vol15[i],
             price           |-> price[i],
             qty_cr          |-> g[i].qty_cr]]

---------------------------------------------------------------------------
(* compute_metrics.py: the module body                                     *)

\* SELECT * FROM raw_trade_events ORDER BY trade_ts
ReadTrades(rows) == SortByTs(rows)

\* trades['isin'].unique(): the instruments in order of first appearance
RECURSIVE Unique(_)
Unique(s) ==
    IF s = <<>> THEN <<>>
    ELSE LET rest == Unique(SubSeq(s, 1, Len(s) - 1))
             x    == s[Len(s)].isin
         IN  IF x \in Range(rest) THEN rest ELSE Append(rest, x)

\* trades[trades['isin'] == isin]
TradesOf(trades, isin) == SelectSeq(trades, LAMBDA r : r.isin = isin)

\* lines 86-95, one pass of the loop: raises says whether compute_depth_score
\* raises for this instrument
LoopBody(all_metrics, isin_trades, raises) ==
    IF Len(isin_trades) > MinTrades
    THEN IF raises THEN all_metrics
         ELSE Append(all_metrics, compute_depth_score(isin_trades))
    ELSE all_metrics

\* the loop with a break in the branch of line 95: an instrument with too
\* few trades ends it
RECURSIVE ProcessIsinsBreak(_, _, _)
ProcessIsinsBreak(isins, trades, fails) ==
    IF isins = <<>> THEN <<>>
    ELSE LET n    == Len(isins)
             done == ProcessIsinsBreak(SubSeq(isins, 1, n - 1), trades, fails)
         IN  IF \E j \in 1..(n - 1) : Len(TradesOf(trades, isins[j])) <= MinTrades
             THEN done
             ELSE LoopBody(done, TradesOf(trades, isins[n]), isins[n] \in fails)

\* the loop with the try around it instead of inside it: the first
\* instrument that raises ends it
RECURSIVE ProcessIsinsAbort(_, _, _)
ProcessIsinsAbort(isins, trades, fails) ==
    IF isins = <<>> THEN <<>>
    ELSE LET n    == Len(isins)
             done == ProcessIsinsAbort(SubSeq(isins, 1, n - 1), trades, fails)
         IN  IF \E j \in 1..(n - 1) :
                    /\ isins[j] \in fails
                    /\ Len(TradesOf(trades, isins[j])) > MinTrades
             THEN done
             ELSE LoopBody(done, TradesOf(trades, isins[n]), isins[n] \in fails)

\* lines 85-95: the loop over the instruments; fails is the set of
\* instruments for which compute_depth_score raises
RECURSIVE ProcessIsins(_, _, _)
ProcessIsins(isins, trades, fails) ==
    IF isins = <<>> THEN <<>>
    ELSE LET n    == Len(isins)
             done == ProcessIsins(SubSeq(isins, 1, n - 1), trades, fails)
         IN  LoopBody(done, TradesOf(trades, isins[n]), isins[n] \in fails)

\* pd.concat(all_metrics, ignore_index=True)
RECURSIVE Concat(_)
Concat(ss) == IF ss = <<>> THEN <<>> ELSE ss[1] \o Concat(Tail(ss))

HasNa(r) ==
    \/ IsNaN(r.depth_score) \/ IsNaN(r.spread) \/ IsNaN(r.time_since_last)
    \/ IsNaN(r.vwap) \/ IsNaN(r.volume_15min) \/ IsNaN(r.price)

\* metrics_df.dropna()
Dropna(rows) == SelectSeq(rows, LAMBDA r : ~HasNa(r))

\* lines 79-101: what the process holds before it touches trade_metrics;
\* any is the truth value of all_metrics on line 99
ComputeMetrics(rows, fails) ==
    LET trades      == ReadTrades(rows)
        all_metrics == ProcessIsins(Unique(trades), trades, fails)
    IN  [any  |-> all_metrics # <<>>,
         rows |-> IF all_metrics # <<>> THEN Dropna(Concat(all_metrics)) ELSE <<>>]

\* the instruments that reach compute_depth_score
Eligible(rows) ==
    {i \in Range(Unique(rows)) : Len(TradesOf(rows, i)) > MinTrades}

---------------------------------------------------------------------------
(* The CSV files the generation step may leave in data/                    *)

MaxRuns == 2
NumFiles == 2
PriceBase == 100

Isins == <<"A", "B", "C">>
Ratings == <<"AAA", "AA", "A">>
Maturities == <<400, 1200, 4000>>

\* one row of generate_data.py's output (line 76): the price is PriceBase
\* plus tick ten-thousandths
TradeRow(a, ts, tick, qty) ==
    [isin          |-> Isins[a],
     rating        |-> Ratings[a],
     maturity_date |-> Maturities[a],
     trade_ts      |-> ts,
     price         |-> Frac(PriceBase * BpsPerUnit + tick, BpsPerUnit),
     qty_cr        |-> qty]

\* the k-th file: one instrument with 5 + k trades (enough for a depth
\* score) and the next instrument with 3 trades (too few on their own)
File(k) ==
    LET a == ((k - 1) % Len(Isins)) + 1
        b == (k % Len(Isins)) + 1
    IN  [i \in 1..(MinTrades + k) |-> TradeRow(a, 20 * k + i, i % 3, 1 + (i % 2))]
        \o [i \in 1..3 |-> TradeRow(b, 20 * k + 2 * i, i % 2, 1)]

NoTable == [exists |-> FALSE, rows |-> <<>>]
Table(rows) == [exists |-> TRUE, rows |-> rows]
NoCodes == [gen |-> "none", ingest |-> "none", compute |-> "none"]
NoDf == [any |-> FALSE, rows |-> <<>>, fails |-> {}, trades |-> <<>>]
NoMetrics == [stage |-> "loaded", ok |-> FALSE, rows |-> <<>>]
NoGrid == <<>>

---------------------------------------------------------------------------
(* main.py lines 51-100: the "Regenerate Data" handler and its three       *)
(* subprocesses                                                            *)

Init ==
    /\ csv = NoTable
    /\ raw = NoTable
    /\ tm = NoTable
    /\ pc = "idle"
    /\ rc = NoCodes
    /\ cpc = "off"
    /\ df = NoDf
    /\ snap = [raw |-> NoTable, tm |-> NoTable, whole |-> NoTable, n |-> 0]
    /\ metrics = NoMetrics
    /\ grid = NoGrid

\* line 51: the button is pressed; snap remembers the stores of that moment
Click ==
    /\ pc = "idle"
    /\ snap.n < MaxRuns
    /\ pc' = "gen"
    /\ rc' = NoCodes
    /\ snap' = [snap EXCEPT !.raw = raw, !.tm = tm, !.n = @ + 1]
    /\ UNCHANGED <<csv, raw, tm, cpc, df, metrics, grid>>

\* lines 58-64, generate_data.py lines 81-83: today's file is (re)written
GenerateData(k) ==
    /\ pc = "gen"
    /\ csv' = Table(File(k))
    /\ rc' = [rc EXCEPT !.gen = "ok"]
    /\ pc' = "ingest"
    /\ UNCHANGED <<raw, tm, cpc, df, snap, metrics, grid>>

\* lines 65-67: the failure is reported and the handler goes on to line 69
GenerateFails ==
    /\ pc = "gen"
    /\ rc' = [rc EXCEPT !.gen = "fail"]
    /\ pc' = "ingest"
    /\ UNCHANGED <<csv, raw, tm, cpc, df, snap, metrics, grid>>

\* lines 71-77, ingest.py lines 11-33: the latest file is appended
Ingest ==
    /\ pc = "ingest"
    /\ csv.exists
    /\ raw' = Table(raw.rows \o csv.rows)
    /\ rc' = [rc EXCEPT !.ingest = "ok"]
    /\ pc' = "compute"
    /\ UNCHANGED <<csv, tm, cpc, df, snap, metrics, grid>>

\* lines 78-80, ingest.py lines 11-29: the table is created (line 11), then
\* the process ends without a commit (no file: line 27, or a failed read)
IngestFails ==
    /\ pc = "ingest"
    /\ raw' = Table(raw.rows)
    /\ rc' = [rc EXCEPT !.ingest = "fail"]
    /\ pc' = "compute"
    /\ UNCHANGED <<csv, tm, cpc, df, snap, metrics, grid>>

\* line 84, compute_metrics.py lines 15-101: the trades are read and the
\* metrics computed in memory; fails are the instruments whose computation
\* raises
ComputeRead(fails) ==
    /\ pc = "compute"
    /\ cpc = "off"
    /\ raw.exists
    /\ fails \subseteq Eligible(raw.rows)
    /\ df' = LET m == ComputeMetrics(raw.rows, fails)
              IN  [any |-> m.any, rows |-> m.rows, fails |-> fails, trades |-> raw.rows]
    /\ cpc' = "computed"
    /\ UNCHANGED <<csv, raw, tm, pc, rc, snap, metrics, grid>>

\* compute_metrics.py lines 133-137: nothing to store, the process ends well
ComputeNothing ==
    /\ pc = "compute"
    /\ cpc = "computed"
    /\ ~df.any
    /\ cpc' = "off"
    /\ rc' = [rc EXCEPT !.compute = "ok"]
    /\ pc' = "idle"
    /\ UNCHANGED <<csv, raw, tm, df, snap, metrics, grid>>

\* line 111, to_sql(if_exists="replace"), first statement when the table
\* exists: DROP TABLE, which sqlite3 runs outside any transaction
DropTable ==
    /\ pc = "compute"
    /\ cpc = "computed"
    /\ df.any
    /\ tm.exists
    /\ tm' = NoTable
    /\ cpc' = "dropped"
    /\ UNCHANGED <<csv, raw, pc, rc, df, snap, metrics, grid>>

\* line 111, second statement: CREATE TABLE, committed on its own
CreateTable ==
    /\ pc = "compute"
    /\ \/ cpc = "dropped"
       \/ cpc = "computed" /\ df.any /\ ~tm.exists
    /\ tm' = Table(<<>>)
    /\ cpc' = "created"
    /\ UNCHANGED <<csv, raw, pc, rc, df, snap, metrics, grid>>

\* lines 111-137 and main.py lines 86-94: the rows are inserted in one
\* transaction and committed, the process ends well
InsertRows ==
    /\ pc = "compute"
    /\ cpc = "created"
    /\ tm' = Table(df.rows)
    /\ cpc' = "off"
    /\ rc' = [rc EXCEPT !.compute = "ok"]
    /\ snap' = [snap EXCEPT !.whole = Table(df.rows)]
    /\ pc' = "idle"
    /\ UNCHANGED <<csv, raw, df, metrics, grid>>

\* main.py lines 95-97: the process ends badly wherever it is (no table to
\* read, a locked database, a kill); an open insert is rolled back
ComputeCrash ==
    /\ pc = "compute"
    /\ cpc' = "off"
    /\ rc' = [rc EXCEPT !.compute = "fail"]
    /\ pc' = "idle"
    /\ UNCHANGED <<csv, raw, tm, df, snap, metrics, grid>>

---------------------------------------------------------------------------
(* main.py lines 119-138: load_metrics                                     *)

NoRating == "NaN"

\* SELECT isin,rating,maturity_date FROM raw_trade_events GROUP BY isin:
\* SQLite takes the bare columns from some row of each group
MetaChoices(rows) ==
    LET isins == Range(Unique(rows))
        pairs(i) == {[rating |-> r.rating, maturity_date |-> r.maturity_date] :
                        r \in {x \in Range(rows) : x.isin = i}}
    IN  {m \in [isins -> UNION {pairs(i) : i \in isins}] :
            \A i \in isins : m[i] \in pairs(i)}

\* metrics.merge(trades_meta, on="isin", how="left")
Merge(rows, meta) ==
    [i \in DOMAIN rows |->
        [isin          |-> rows[i].isin,
         trade_ts      |-> rows[i].trade_ts,
         depth_score   |-> rows[i].depth_score,
         spread        |-> rows[i].spread,
         vwap          |-> rows[i].vwap,
         qty_cr        |-> rows[i].qty_cr,
         rating        |-> IF rows[i].isin \in DOMAIN meta
                           THEN meta[rows[i].isin].rating ELSE NoRating,
         maturity_date |-> IF rows[i].isin \in DOMAIN meta
                           THEN Whole(meta[rows[i].isin].maturity_date) ELSE NaN]]

\* line 124: the first query; a missing table raises, and lines 135-138
\* return an empty frame
ReadTradeMetrics ==
    /\ metrics.stage = "loaded"
    /\ metrics' = IF tm.exists
                  THEN [stage |-> "reading", ok |-> TRUE, rows |-> tm.rows]
                  ELSE NoMetrics
    /\ UNCHANGED <<csv, raw, tm, pc, rc, cpc, df, snap, grid>>

\* lines 125-138: the second query and the merge; a missing
\* raw_trade_events raises, and an empty frame is returned
ReadTradesMeta(meta) ==
    /\ metrics.stage = "reading"
    /\ meta \in MetaChoices(raw.rows)
    /\ metrics' = IF raw.exists
                  THEN [stage |-> "loaded", ok |-> TRUE, rows |-> Merge(metrics.rows, meta)]
                  ELSE NoMetrics
    /\ UNCHANGED <<csv, raw, tm, pc, rc, cpc, df, snap, grid>>

Next ==
    \/ Click
    \/ \E k \in 1..NumFiles : GenerateData(k)
    \/ GenerateFails
    \/ Ingest
    \/ IngestFails
    \/ /\ pc = "compute" /\ cpc = "off" /\ raw.exists
       /\ \E fails \in SUBSET Eligible(raw.rows) : ComputeRead(fails)
    \/ ComputeNothing
    \/ DropTable
    \/ CreateTable
    \/ InsertRows
    \/ ComputeCrash
    \/ ReadTradeMetrics
    \/ /\ metrics.stage = "reading"
       /\ \E meta \in MetaChoices(raw.rows) : ReadTradesMeta(meta)

Spec == Init /\ [][Next]_vars

---------------------------------------------------------------------------
(* compute_metrics.py on its own: the trades table is drawn from a bounded *)
(* set of inputs, and the script is applied to it                          *)

MaxBlocks == 3
MaxOther == 6
BlockLen == MinTrades
Kinds == {1, 2, 3}

\* the i-th trade of a block of kind k: an even kind trades no volume, a
\* kind above 2 moves the price
KindTick(k, i) == ((k - 1) \div 2) * (i % 3)
KindQty(k, i) == IF k % 2 = 0 THEN 0 ELSE 1 + (i % 2)

\* instrument 1 with the blocks sel, a trade every 3 or 4 minutes
BlockRows(sel) ==
    [j \in 1..(Len(sel) * BlockLen) |->
        LET k == sel[((j - 1) \div BlockLen) + 1]
            i == ((j - 1) % BlockLen) + 1
        IN  TradeRow(1, 3 * j + ((k * i) % 2), KindTick(k, i), KindQty(k, i))]

\* instrument 2 with nb trades, one a minute at a constant price, starting
\* before or after instrument 1
OtherRows(nb, early) ==
    [j \in 1..nb |-> TradeRow(2, j + (IF early THEN 0 ELSE 100), 0, 1)]

BlockSeqs == UNION {[1..n -> Kinds] : n \in 0..MaxBlocks}

\* the numbers of trades of instrument 2: none, one, the largest number that
\* is skipped, and the largest of the bound
OtherLens == {0, 1, MinTrades, MaxOther}

MInit ==
    /\ csv = NoTable
    /\ \E sel \in BlockSeqs, nb \in OtherLens, early \in BOOLEAN :
          raw = Table(BlockRows(sel) \o OtherRows(nb, early))
    /\ tm = NoTable
    /\ pc = "compute"
    /\ rc = NoCodes
    /\ cpc = "off"
    /\ df = NoDf
    /\ snap = [raw |-> NoTable, tm |-> NoTable, whole |-> NoTable, n |-> 0]
    /\ metrics = NoMetrics
    /\ grid = NoGrid

MNext == \E fails \in SUBSET Eligible(raw.rows) : ComputeRead(fails)

SpecMetrics == MInit /\ [][MNext]_vars

---------------------------------------------------------------------------
(* main.py lines 140-252: render                                           *)

MinutesPerDay == 1440
DaysPerYear == 365
NoBucket == "NaN"
TenorLabels == <<"0-1y", "1-3y", "3-5y", "5-10y", "10y+">>
TenorBins == <<0, 1, 3, 5, 10, 100>>
RED == "#e74c3c"
GREEN == "#27ae60"
AMBER == "#f39c12"
Unstyled == "-"

\* line 151: (maturity_date - trade_ts).dt.days, the whole days of the
\* difference, rounded down
TenorDays(r) == (r.maturity_date.n * MinutesPerDay - r.trade_ts) \div MinutesPerDay

\* lines 151-154: tenor_years and pd.cut(..., right=False): the bin with
\* lower edge <= tenor_years < upper edge, none outside the edges
TenorBucket(r) ==
    IF IsNaN(r.maturity_date) THEN NoBucket
    ELSE LET y == Frac(TenorDays(r), DaysPerYear)
             k == {b \in DOMAIN TenorLabels :
                      RLe(Whole(TenorBins[b]), y) /\ RLt(y, Whole(TenorBins[b + 1]))}
         IN  IF k = {} THEN NoBucket ELSE TenorLabels[CHOOSE b \in k : TRUE]

WithBucket(rows) ==
    [i \in DOMAIN rows |->
        [isin |-> rows[i].isin, trade_ts |-> rows[i].trade_ts,
         depth_score |-> rows[i].depth_score, spread |-> rows[i].spread,
         vwap |-> rows[i].vwap, qty_cr |-> rows[i].qty_cr,
         rating |-> rows[i].rating, tenor_bucket |-> TenorBucket(rows[i])]]

\* per instrument, its first row in the frame
IdxFirst(rows, isin) ==
    CHOOSE i \in DOMAIN rows :
        /\ rows[i].isin = isin
        /\ \A j \in DOMAIN rows : rows[j].isin = isin => i <= j

\* groupby('isin')['trade_ts'].idxmax(): per instrument, the first row that
\* has its largest trade_ts
IdxMax(rows, isin) ==
    CHOOSE i \in DOMAIN rows :
        /\ rows[i].isin = isin
        /\ \A j \in DOMAIN rows : rows[j].isin = isin =>
              \/ rows[j].trade_ts < rows[i].trade_ts
              \/ rows[j].trade_ts = rows[i].trade_ts /\ i <= j

\* line 170: only the rows that carry the latest trade_ts of the whole frame
LatestMetricsGlobal(rows) ==
    SelectSeq(rows, LAMBDA r : \A j \in DOMAIN rows : rows[j].trade_ts <= r.trade_ts)

\* line 174: the rows picked, in the order of the sorted instrument ids
LatestMetrics(rows) ==
    LET present == SelectSeq(Isins, LAMBDA x : \E i \in DOMAIN rows : rows[i].isin = x)
    IN  [k \in DOMAIN present |-> rows[IdxMax(rows, present[k])]]

\* the sequence s in ascending order
RECURSIVE SortRat(_)
SortRat(s) ==
    IF s = <<>> THEN <<>>
    ELSE LET n    == Len(s)
             rest == SortRat(SubSeq(s, 1, n - 1))
             k    == Cardinality({i \in DOMAIN rest : RLe(rest[i], s[n])})
         IN  SubSeq(rest, 1, k) \o <<s[n]>> \o SubSeq(rest, k + 1, Len(rest))

\* the quantile without interpolation: the entry at the position rounded down
QuantileLower(s, num, den) ==
    LET v == SortRat(NotNa(s))
        n == Len(v)
    IN  IF n = 0 THEN NaN ELSE v[(((n - 1) * num) \div den) + 1]

\* Series.quantile(num/den): NaN entries are skipped, and the value lies at
\* position (n - 1) * num/den of the sorted entries, linearly interpolated
Quantile(s, num, den) ==
    LET v == SortRat(NotNa(s))
        n == Len(v)
    IN  IF n = 0 THEN NaN
        ELSE LET lo == ((n - 1) * num) \div den
                 fr == Frac(((n - 1) * num) % den, den)
             IN  IF lo + 1 >= n THEN v[n]
                 ELSE RAdd(v[lo + 1], RMul(fr, RSub(v[lo + 2], v[lo + 1])))

Median(s) == Quantile(s, 1, 2)

Column(rows, f(_)) == [i \in DOMAIN rows |-> f(rows[i])]

\* lines 183-189: one row of the grid, aggregated from the latest rows of
\* one (rating, tenor_bucket)
Cell(latest, rating, bucket) ==
    LET m == SelectSeq(latest, LAMBDA r : r.rating = rating /\ r.tenor_bucket = bucket)
    IN  [rating       |-> rating,
         tenor_bucket |-> bucket,
         depth        |-> Median(Column(m, LAMBDA r : r.depth_score)),
         spread       |-> Median(Column(m, LAMBDA r : r.spread)),
         volume       |-> SeqSum(Column(m, LAMBDA r : Whole(r.qty_cr))),
         n_trades     |-> Len(m),
         vwap         |-> IF m = <<>> THEN NaN ELSE m[Len(m)].vwap]

\* groupby(['rating','tenor_bucket'], observed=False): tenor_bucket is a
\* categorical, so there is a row for every rating of the latest rows and
\* every one of the five labels, with or without members
GridRows(latest) ==
    LET ratings == {latest[i].rating : i \in DOMAIN latest} \ {NoRating}
    IN  {Cell(latest, r, b) : r \in ratings, b \in Range(TenorLabels)}

\* the classification with <= in the first depth test
colourLe(row, p25, p75, median_spread) ==
    IF \/ IsNaN(row.depth)
       \/ RLe(row.depth, p25)
       \/ RGt(row.spread, RMul(median_spread, Frac(3, 2)))
    THEN RED
    ELSE IF RGe(row.depth, p75) /\ RLe(row.spread, median_spread)
    THEN GREEN
    ELSE AMBER

\* lines 203-209
colour(row, p25, p75, median_spread) ==
    IF \/ IsNaN(row.depth)
       \/ RLt(row.depth, p25)
       \/ RGt(row.spread, RMul(median_spread, Frac(3, 2)))
    THEN RED
    ELSE IF RGe(row.depth, p75) /\ RLe(row.spread, median_spread)
    THEN GREEN
    ELSE AMBER

\* the cell text without the test for a missing depth
ShownAtAnyMatch(match) ==
    IF match = {} THEN Unstyled ELSE (CHOOSE g \in match : TRUE).colour

\* lines 234-240: "-" when no grid row matches or its depth is missing,
\* else the row's colour
ShownAt(match) ==
    IF match = {} \/ \A g \in match : IsNaN(g.cell.depth)
    THEN Unstyled
    ELSE (CHOOSE g \in match : TRUE).colour

\* the rows of a frame, one after the other
RECURSIVE SetToSeq(_)
SetToSeq(S) ==
    IF S = {} THEN <<>>
    ELSE LET x == CHOOSE y \in S : TRUE
         IN  <<x>> \o SetToSeq(S \ {x})

\* lines 150-252: the grid with its thresholds and colours, and what each
\* position of the heatmap shows
RenderGrid(rows) ==
    LET m      == WithBucket(rows)
        latest == LatestMetrics(m)
        cells  == GridRows(latest)
        cseq   == SetToSeq(cells)
        depths == Column(cseq, LAMBDA c : c.depth)
        p75    == Quantile(depths, 3, 4)
        p25    == Quantile(depths, 1, 4)
        median_spread == Median(Column(cseq, LAMBDA c : c.spread))
        coloured == {[cell |-> c, colour |-> colour(c, p25, p75, median_spread)] :
                        c \in cells}
        rating_levels == {m[i].rating : i \in DOMAIN m}
        shown == [pos \in rating_levels \X Range(TenorLabels) |->
                    ShownAt({g \in coloured : /\ g.cell.rating = pos[1]
                                              /\ g.cell.tenor_bucket = pos[2]})]
    IN  [latest |-> latest, cells |-> coloured, p25 |-> p25, p75 |-> p75,
         median_spread |-> median_spread, shown |-> shown]

\* lines 140-146 and 279: the view is drawn from what load_metrics returned
Render ==
    /\ metrics.stage = "loaded"
    /\ metrics.rows # <<>>
    /\ grid' = RenderGrid(metrics.rows)
    /\ UNCHANGED <<csv, raw, tm, pc, rc, cpc, df, snap, metrics>>

---------------------------------------------------------------------------
(* render on its own: what load_metrics returned is drawn from a bounded   *)
(* set of merged frames, and render is applied to it                       *)

MaxOlder == 1

\* the latest (depth_score, spread) an instrument may have
Readings == {<<10, 1>>, <<40, 4>>, <<60, 1>>}

\* (rating, maturity_date): 364 days to maturity, 365 days to maturity (the
\* edge of the second bin), and a bond that has matured
Places == {<<"AAA", 365>>, <<"AAA", 366>>, <<"AA", 366>>, <<"AA", 0>>}

MergedRow(a, ts, depth, spread, place) ==
    [isin          |-> Isins[a],
     trade_ts      |-> ts,
     depth_score   |-> Whole(depth),
     spread        |-> Whole(spread),
     vwap          |-> Whole(PriceBase + a),
     qty_cr        |-> 1,
     rating        |-> place[1],
     maturity_date |-> Whole(place[2])]

\* the minute of an instrument's last trade: the second instrument trades
\* last and the third first, so that the order of the last trades is not
\* the order of the instrument ids
LastTs(a) == 11 + (a % Len(Isins))

\* the rows of one instrument: older rows with score 100, then its latest
HistoryOf(a, c) ==
    IF c.absent THEN <<>>
    ELSE [k \in 1..c.older |-> MergedRow(a, k, ScoreScale, 1, c.place)]
         \o <<MergedRow(a, LastTs(a), c.reading[1], c.reading[2], c.place)>>

Histories ==
    {[absent |-> TRUE, older |-> 0, reading |-> <<10, 1>>, place |-> <<"AAA", 365>>]}
    \cup [absent : {FALSE}, older : 0..MaxOlder, reading : Readings, place : Places]

GInit ==
    /\ csv = NoTable
    /\ raw = NoTable
    /\ tm = NoTable
    /\ pc = "idle"
    /\ rc = NoCodes
    /\ cpc = "off"
    /\ df = NoDf
    /\ snap = [raw |-> NoTable, tm |-> NoTable, whole |-> NoTable, n |-> 0]
    /\ \E h \in [DOMAIN Isins -> Histories] :
          metrics = [stage |-> "loaded", ok |-> TRUE,
                     rows |-> Concat([a \in DOMAIN Isins |-> HistoryOf(a, h[a])])]
    /\ grid = NoGrid

GNext == grid = NoGrid /\ Render

SpecGrid == GInit /\ [][GNext]_vars

---------------------------------------------------------------------------
(* The tenor bucketing of render on its own: the merged frame holds one    *)
(* record, drawn from maturities around every edge of the bins             *)

\* days from the date of the record's trade to maturity_date: around 0, the
\* four inner edges, and the upper edge of the last bin
EdgeMaturities ==
    {0, 1, 364, 365, 366, 1094, 1095, 1096, 1824, 1825, 1826,
     3649, 3650, 3651, 36499, 36500, 36501}

\* the minute of the day of the record's trade
EdgeMinutes == {0, 11}

TInit ==
    /\ csv = NoTable
    /\ raw = NoTable
    /\ tm = NoTable
    /\ pc = "idle"
    /\ rc = NoCodes
    /\ cpc = "off"
    /\ df = NoDf
    /\ snap = [raw |-> NoTable, tm |-> NoTable, whole |-> NoTable, n |-> 0]
    /\ \E a \in DOMAIN Isins, ts \in EdgeMinutes, d \in EdgeMaturities :
          metrics = [stage |-> "loaded", ok |-> TRUE,
                     rows |-> <<MergedRow(a, ts, ScoreScale, 1, <<Ratings[a], d>>)>>]
    /\ grid = NoGrid

TNext == grid = NoGrid /\ Render

SpecTenor == TInit /\ [][TNext]_vars

---------------------------------------------------------------------------
(* Properties of the regeneration run and of the stores                    *)

RunFailed ==
    /\ pc = "idle"
    /\ snap.n > 0
    /\ "fail" \in {rc.gen, rc.ingest, rc.compute}

\* C1: after a run in which a step failed, raw_trade_events and
\* trade_metrics are what they were when the run started.
C1_FailedRunKeepsStores ==
    RunFailed => (raw.rows = snap.raw.rows /\ tm = snap.tm)

\* the whole batches a reader may see: the last one stored completely and,
\* while compute_metrics.py is storing, the one it is about to store
WholeBatches ==
    {snap.whole} \cup
    (IF cpc \in {"computed", "dropped", "created"} /\ df.any
     THEN {Table(df.rows)} ELSE {})

\* C2: whenever load_metrics reads trade_metrics, and whenever the compute
\* process dies, the table is the complete previous batch or the complete
\* new batch.
C2_ReaderSeesWholeBatch ==
    [][(ReadTradeMetrics \/ ComputeCrash) => tm \in WholeBatches]_vars

\* C3: after a compute run that ended well, trade_metrics holds exactly the
\* records that run derived from the trades it read.
C3_StoreHoldsThisRun ==
    (pc = "idle" /\ rc.compute = "ok") => tm.rows = df.rows

\* C11: the steps run in the order generate, ingest, compute, and a step is
\* started only when the step before it has exited successfully.
C11_StepsStopOnFailure ==
    /\ pc = "gen" => (rc.gen = "none" /\ rc.ingest = "none" /\ rc.compute = "none")
    /\ pc = "ingest" => (rc.gen = "ok" /\ rc.ingest = "none" /\ rc.compute = "none")
    /\ pc = "compute" => (rc.gen = "ok" /\ rc.ingest = "ok" /\ rc.compute = "none")

---------------------------------------------------------------------------
(* Properties of the metrics computation                                   *)

RowsOf(rows, i) == SelectSeq(rows, LAMBDA r : r.isin = i)

Computed == cpc = "computed"

ReadIsins == Range(Unique(df.trades))

NumTrades(i) == Len(TradesOf(df.trades, i))

\* what one instrument yields on its own: its series without the rows that
\* have an undefined field
OwnRecords(i) == Dropna(compute_depth_score(TradesOf(ReadTrades(df.trades), i)))

Without(trades, f) == SelectSeq(trades, LAMBDA r : r.isin # f)

\* C5: an instrument whose computation raises has no record in the result,
\* and the result is what the run yields without that instrument's trades.
C5_FailureIsolated ==
    Computed =>
        \A f \in df.fails :
            /\ RowsOf(df.rows, f) = <<>>
            /\ df.rows = ComputeMetrics(Without(df.trades, f), df.fails \ {f}).rows

\* the first instrument of the table raises and a later one has records
C5_Witness ==
    /\ Computed
    /\ \E f \in df.fails, j \in ReadIsins :
          /\ Unique(ReadTrades(df.trades))[1] = f
          /\ j \notin df.fails
          /\ RowsOf(df.rows, j) # <<>>

\* the depth scores an instrument has in the result
Scores(i) == LET r == RowsOf(df.rows, i) IN [k \in DOMAIN r |-> r[k].depth_score]

\* no trade of the instrument has volume
NoVolume(i) == \A r \in Range(TradesOf(df.trades, i)) : r.qty_cr = 0

SortedTrades(i) == SortByTs(TradesOf(df.trades, i))

\* every trade of the instrument has volume
AllVolume(i) == \A r \in Range(TradesOf(df.trades, i)) : r.qty_cr > 0

\* six trades a minute apart, at one price and one positive quantity
SixEvenTrades(i) ==
    LET t == SortedTrades(i)
    IN  /\ Len(t) = 6
        /\ \A k \in 2..6 : /\ t[k].trade_ts = t[k - 1].trade_ts + 1
                            /\ t[k].price = t[1].price
                            /\ t[k].qty_cr = t[1].qty_cr
        /\ t[1].qty_cr > 0

\* C12: an instrument with n >= 6 trades, all with positive quantity, has
\* exactly n - 5 records, one for each of its 6th and later trades in time
\* order; six trades a minute apart at a constant price and quantity give
\* one record, for the 6th trade, with depth_score 100 and spread 0.
C12_RecordsFromSixthTrade ==
    Computed =>
        \A i \in ReadIsins :
            (NumTrades(i) >= 6 /\ i \notin df.fails /\ AllVolume(i)) =>
                LET t == SortedTrades(i)
                    r == RowsOf(df.rows, i)
                IN  /\ Len(r) = Len(t) - 5
                    /\ \A k \in DOMAIN r : /\ r[k].trade_ts = t[k + 5].trade_ts
                                           /\ r[k].price = t[k + 5].price
                                           /\ r[k].qty_cr = t[k + 5].qty_cr
                    /\ SixEvenTrades(i) =>
                           /\ r[1].depth_score = Whole(ScoreScale)
                           /\ r[1].spread = Whole(0)

\* the six even trades next to an instrument with ten or more trades and a
\* moving price
C12_Witness ==
    /\ Computed
    /\ \E i, j \in ReadIsins :
          /\ i \notin df.fails /\ j \notin df.fails
          /\ SixEvenTrades(i)
          /\ Len(RowsOf(df.rows, i)) = 1
          /\ NumTrades(j) >= 10 /\ AllVolume(j)
          /\ Len(RowsOf(df.rows, j)) = NumTrades(j) - 5
          /\ \E x \in Range(RowsOf(df.rows, j)) : RGt(x.spread, Whole(0))

---------------------------------------------------------------------------
(* Properties of the grid                                                  *)

Rendered == grid # NoGrid

IsinsOf(rows) == {rows[i].isin : i \in DOMAIN rows}

\* per instrument, its row with its own largest trade_ts
LatestRows(rows) ==
    [i \in IsinsOf(rows) |->
        LET own == SelectSeq(rows, LAMBDA r : r.isin = i)
        IN  own[CHOOSE k \in DOMAIN own : \A j \in DOMAIN own :
                                             own[j].trade_ts <= own[k].trade_ts]]

\* the instruments whose latest row lies in the cell
Contributors(last, rating, bucket) ==
    {i \in DOMAIN last : last[i].rating = rating /\ last[i].tenor_bucket = bucket}

\* the instruments whose latest row has a rating and a tenor bucket
Placed(last) ==
    {i \in DOMAIN last : last[i].rating # NoRating /\ last[i].tenor_bucket # NoBucket}

RECURSIVE SumTrades(_)
SumTrades(S) ==
    IF S = {} THEN 0
    ELSE LET g == CHOOSE x \in S : TRUE
         IN  g.cell.n_trades + SumTrades(S \ {g})

CountsMatch(last) ==
    \A g \in grid.cells :
        g.cell.n_trades =
            Cardinality(Contributors(last, g.cell.rating, g.cell.tenor_bucket))

Populated == {g \in grid.cells : g.cell.n_trades >= 1}

IsRed(c) ==
    \/ IsNaN(c.depth)
    \/ c.depth.n * grid.p25.d < grid.p25.n * c.depth.d
    \/ 2 * c.spread.n * grid.median_spread.d > 3 * grid.median_spread.n * c.spread.d

IsGreen(c) ==
    /\ ~IsRed(c)
    /\ c.depth.n * grid.p75.d >= grid.p75.n * c.depth.d
    /\ c.spread.n * grid.median_spread.d <= grid.median_spread.n * c.spread.d

\* C8: a populated cell is RED if its depth is missing or below p25 or its
\* spread above 1.5 times the median spread, else GREEN if its depth is at
\* least p75 and its spread at most the median spread, else AMBER; a depth
\* equal to p25 is not below it, and depth = p75 with spread = median
\* spread is GREEN.
C8_FirstMatchColour ==
    Rendered =>
        \A g \in Populated :
            /\ g.colour = (IF IsRed(g.cell) THEN RED
                           ELSE IF IsGreen(g.cell) THEN GREEN ELSE AMBER)
            /\ (g.cell.depth = grid.p25 /\ g.colour = RED) =>
                   RGt(g.cell.spread, RMul(grid.median_spread, Frac(3, 2)))
            /\ (g.cell.depth = grid.p75 /\ g.cell.spread = grid.median_spread) =>
                   g.colour = GREEN

\* a cell that sits on p25, below p75, and is not RED
C8_Witness ==
    /\ Rendered
    /\ \E g \in Populated :
          /\ g.cell.depth = grid.p25
          /\ grid.p25 # grid.p75
          /\ g.colour = AMBER

\* C8, the boundary of GREEN: a cell on p75 with the median spread
C8_WitnessGreen ==
    /\ Rendered
    /\ \E g \in Populated :
          /\ g.cell.depth = grid.p75
          /\ g.cell.spread = grid.median_spread
          /\ g.colour = GREEN

\* the grid rows of one (rating, tenor_bucket)
RowsAt(pos) ==
    {g \in grid.cells : g.cell.rating = pos[1] /\ g.cell.tenor_bucket = pos[2]}

\* C9 as stated: the grid holds a row only for a combination with at least
\* one contributing instrument, and no combination without one is given RED.
C9_OnlyPopulatedCells ==
    Rendered =>
        \A g \in grid.cells : g.cell.n_trades >= 1 \/ g.colour # RED

\* C9 amended: every position of the heatmap has exactly one grid row; a
\* position with at least one contributing instrument shows the colour of
\* its row, and a position with none shows "-" without a colour, whatever
\* colour its row carries.
C9_EmptyShownUnstyled ==
    Rendered =>
        LET last == LatestRows(WithBucket(metrics.rows))
        IN  \A pos \in DOMAIN grid.shown :
                /\ Cardinality(RowsAt(pos)) = 1
                /\ IF Contributors(last, pos[1], pos[2]) = {}
                   THEN grid.shown[pos] = Unstyled
                   ELSE /\ grid.shown[pos] \in {RED, GREEN, AMBER}
                        /\ \A g \in RowsAt(pos) : grid.shown[pos] = g.colour

\* a position without contributors whose row carries RED and shows "-",
\* next to a position with contributors that shows RED
C9_Witness ==
    /\ Rendered
    /\ \E pos \in DOMAIN grid.shown :
          /\ grid.shown[pos] = Unstyled
          /\ \E g \in RowsAt(pos) : g.cell.n_trades = 0 /\ g.colour = RED
    /\ \E pos \in DOMAIN grid.shown : grid.shown[pos] = RED

\* the median depths of the populated cells, ascending
PopulatedDepths == SortRat(Column(SetToSeq(Populated), LAMBDA g : g.cell.depth))

\* the median spreads of the populated cells, ascending
PopulatedSpreads == SortRat(Column(SetToSeq(Populated), LAMBDA g : g.cell.spread))

\* the grid of the example: a cell of rating AAA whose latest depths are 40
\* and 60, and a cell of rating AA with depth 10
ExampleCells ==
    {e \in Populated \X Populated :
        /\ Cardinality(Populated) = 2
        /\ e[1].cell.rating = "AAA" /\ e[2].cell.rating = "AA"
        /\ {r.depth_score : r \in {x \in Range(grid.latest) :
                                      /\ x.rating = "AAA"
                                      /\ x.tenor_bucket = e[1].cell.tenor_bucket}}
              = {Whole(40), Whole(60)}
        /\ e[1].cell.n_trades = 2
        /\ e[2].cell.depth = Whole(10)}

\* C10: p25 and p75 are the linearly interpolated quantiles of the populated
\* cells' median depths, and median_spread is the median of their median
\* spreads (for the one, two or three populated cells three instruments can
\* give; NaN when no cell is populated).  In the example the AAA cell has
\* depth 50, p25 = 20 and p75 = 40 come from {50, 10}, and AA is RED.
C10_ThresholdsFromGrid ==
    Rendered =>
        LET v == PopulatedDepths
            w == PopulatedSpreads
            n == Len(v)
        IN  /\ n \in 0..3
            /\ (n = 0) => (/\ IsNaN(grid.p25)
                           /\ IsNaN(grid.p75)
                           /\ IsNaN(grid.median_spread))
            /\ (n = 1) => (/\ grid.p25 = v[1]
                           /\ grid.p75 = v[1]
                           /\ grid.median_spread = w[1])
            /\ (n = 2) => (/\ RMul(Whole(4), grid.p25) = RAdd(RMul(Whole(3), v[1]), v[2])
                           /\ RMul(Whole(4), grid.p75) = RAdd(v[1], RMul(Whole(3), v[2]))
                           /\ RMul(Whole(2), grid.median_spread) = RAdd(w[1], w[2]))
            /\ (n = 3) => (/\ RMul(Whole(2), grid.p25) = RAdd(v[1], v[2])
                           /\ RMul(Whole(2), grid.p75) = RAdd(v[2], v[3])
                           /\ grid.median_spread = w[2])
            /\ \A e \in ExampleCells :
                  /\ e[1].cell.depth = Whole(50)
                  /\ grid.p25 = Whole(20)
                  /\ grid.p75 = Whole(40)
                  /\ e[2].colour = RED

\* the grid of the example
C10_Witness == Rendered /\ ExampleCells # {}

\* the largest trade_ts of the whole frame
GlobalLatestTs(rows) ==
    CHOOSE t \in {rows[i].trade_ts : i \in DOMAIN rows} :
        \A i \in DOMAIN rows : rows[i].trade_ts <= t

\* the selected rows of instruments whose last trade is older than the last
\* trade of the frame
Lagging ==
    {r \in Range(grid.latest) : r.trade_ts < GlobalLatestTs(metrics.rows)}

\* C13: the rows the grid is aggregated from are exactly one per instrument
\* of the frame, each the instrument's own row with its largest trade_ts; an
\* instrument whose last trade is older than the last trade of the frame is
\* among them, and is counted in the cell of its rating and tenor bucket.
C13_LatestPerInstrument ==
    Rendered =>
        LET m == WithBucket(metrics.rows)
            L == grid.latest
        IN  /\ \A i \in IsinsOf(m) :
                   Cardinality({k \in DOMAIN L : L[k].isin = i}) = 1
            /\ \A k \in DOMAIN L :
                   /\ L[k] \in Range(m)
                   /\ \A r \in Range(m) :
                          r.isin = L[k].isin => r.trade_ts <= L[k].trade_ts
            /\ \A r \in Lagging :
                   (r.rating # NoRating /\ r.tenor_bucket # NoBucket) =>
                       \E g \in grid.cells :
                           /\ g.cell.rating = r.rating
                           /\ g.cell.tenor_bucket = r.tenor_bucket
                           /\ g.cell.n_trades >= 1

\* an instrument with older rows whose last trade is older than the last
\* trade of the frame, alone in its cell
C13_Witness ==
    /\ Rendered
    /\ \E r \in Lagging :
          /\ Len(SelectSeq(metrics.rows, LAMBDA x : x.isin = r.isin)) > 1
          /\ \E g \in grid.cells :
                 /\ g.cell.rating = r.rating
                 /\ g.cell.tenor_bucket = r.tenor_bucket
                 /\ g.cell.n_trades = 1
                 /\ g.cell.depth = r.depth_score

\* the selected rows that fall in the cell
CellRows(c) ==
    {r \in Range(grid.latest) : r.rating = c.rating /\ r.tenor_bucket = c.tenor_bucket}

\* C14: the vwap of every populated cell is the vwap of the selected row
\* with the largest trade_ts among the rows of the cell.
C14_VwapOfMostRecent ==
    Rendered =>
        \A g \in Populated :
            \E r \in CellRows(g.cell) :
                /\ \A x \in CellRows(g.cell) : x.trade_ts <= r.trade_ts
                /\ g.cell.vwap = r.vwap

\* minutes from a record's trade to its maturity date
MinutesToMaturity(r) == r.maturity_date.n * MinutesPerDay - r.trade_ts

\* the bucket of a tenor of d >= 0 whole days, the last bucket without an
\* upper edge
BucketOfDays(d) ==
    IF d < 365 THEN "0-1y"
    ELSE IF d < 1095 THEN "1-3y"
    ELSE IF d < 1825 THEN "3-5y"
    ELSE IF d < 3650 THEN "5-10y"
    ELSE "10y+"

\* the record is counted in a cell of the grid
InGrid(r) ==
    \E g \in Populated :
        /\ g.cell.rating = r.rating
        /\ \E x \in CellRows(g.cell) : x.isin = r.isin /\ x.trade_ts = r.trade_ts

\* C15: a record whose maturity date is 0 or more days after its own trade
\* has the bucket of its tenor, the last bucket being unbounded above, and
\* a record is left out of the grid only if its tenor is negative or it
\* has no rating.
C15_TenorPartition ==
    Rendered =>
        \A i \in DOMAIN metrics.rows :
            LET r == metrics.rows[i]
                b == WithBucket(metrics.rows)[i].tenor_bucket
            IN  /\ MinutesToMaturity(r) >= 0 =>
                       b = BucketOfDays(MinutesToMaturity(r) \div MinutesPerDay)
                /\ ~InGrid(r) => (MinutesToMaturity(r) < 0 \/ r.rating = NoRating)

====
